---- MODULE Spec2Model ----
(***************************************************************************)
(* Model of the raptor migration tool (core package): the Migrator with    *)
(* its SimulatedDB history ledger, and the operations Migrate, Rollback    *)
(* and Status.                                                             *)
(*                                                                         *)
(* A migration is identified by its name.  Names are Go strings, compared  *)
(* bytewise; a name is modelled as the sequence of its digits, so that     *)
(* "10" is <<1, 0>> and sorts before "2" = <<2>>.                          *)
(***************************************************************************)
EXTENDS Integers, Sequences, FiniteSets, TLC

VARIABLES
    migrations,   \* Migrator.migrations: the registered list, sorted by name
    History,      \* SimulatedDB.History: migration name -> batch number
    NextBatch,    \* SimulatedDB.NextBatch
    last,         \* the call that returned last, with the state it started in
    prev,         \* the call that returned before it
    applyOrder,   \* names whose Up returned nil and whose Down has not, oldest first
    partial       \* names recorded by a failed Migrate, no Migrate having succeeded since

vars == <<migrations, History, NextBatch, last, prev, applyOrder, partial>>

\* The longest registered list that is explored.
MaxMigrations == 3

\* The names migrations are drawn from: "001", "002", "10", "2".
NamePool == {<<0, 0, 1>>, <<0, 0, 2>>, <<1, 0>>, <<2>>}

\* The nil error.
NoError == <<>>

----------------------------------------------------------------------------
(* Helpers *)

\* Go's < on strings: bytewise lexicographic, a proper prefix sorts first.
RECURSIVE NameLess(_, _)
NameLess(a, b) ==
    IF a = <<>> THEN b # <<>>
    ELSE IF b = <<>> THEN FALSE
    ELSE IF a[1] < b[1] THEN TRUE
    ELSE IF a[1] > b[1] THEN FALSE
    ELSE NameLess(Tail(a), Tail(b))

Range(s) == {s[i] : i \in 1..Len(s)}

\* The empty map.
EmptyHistory == [n \in {} |-> 0]

\* The sequences over S of length at most n.
RECURSIVE ListsOver(_, _)
ListsOver(S, n) ==
    IF n = 0 THEN {<<>>}
    ELSE LET shorter == ListsOver(S, n - 1)
         IN  shorter \cup {Append(l, x) : l \in shorter, x \in S}

\* The lists a caller may register: names are unique.
Registrations ==
    {l \in ListsOver(NamePool, MaxMigrations) : Cardinality(Range(l)) = Len(l)}

\* Insert x into the sorted sequence s, before the first element it is less than.
RECURSIVE InsertSorted(_, _)
InsertSorted(s, x) ==
    IF s = <<>> THEN <<x>>
    ELSE IF NameLess(x, s[1]) THEN <<x>> \o s
    ELSE <<s[1]>> \o InsertSorted(Tail(s), x)

\* The list left in the order it was registered in.
SortByNameSkipped(s) == s

\* sort.Slice(migrations, by Name() ascending).
RECURSIVE SortByName(_)
SortByName(s) ==
    IF s = <<>> THEN <<>>
    ELSE InsertSorted(SortByName(Tail(s)), s[1])

\* sort.Strings over the keys of a map, whatever order the range yields them in.
RECURSIVE SortStrings(_)
SortStrings(S) ==
    IF S = {} THEN <<>>
    ELSE LET x == CHOOSE y \in S : TRUE
         IN  InsertSorted(SortStrings(S \ {x}), x)

\* delete(m, key).
MapDelete(m, key) == [n \in (DOMAIN m) \ {key} |-> m[n]]

\* m[key] = value.
MapPut(m, key, value) ==
    [n \in (DOMAIN m) \cup {key} |-> IF n = key THEN value ELSE m[n]]

Reverse(s) == [i \in 1..Len(s) |-> s[Len(s) + 1 - i]]

----------------------------------------------------------------------------
(* SimulatedDB *)

\* No name reported as run.
GetRanMigrationsNone(hist) == <<>>

GetRanMigrations(hist) == SortStrings(DOMAIN hist)

RECURSIVE MaxOf(_)
MaxOf(S) ==
    IF S = {} THEN 0
    ELSE LET x == CHOOSE y \in S : TRUE
             rest == MaxOf(S \ {x})
         IN  IF x > rest THEN x ELSE rest

\* The lowest batch number recorded: the comparison turned around.
GetLastBatchLowest(hist) ==
    IF DOMAIN hist = {} THEN 0
    ELSE CHOOSE b \in {hist[n] : n \in DOMAIN hist} :
             \A n \in DOMAIN hist : b <= hist[n]

GetLastBatch(hist) == MaxOf({hist[n] : n \in DOMAIN hist})

----------------------------------------------------------------------------
(* Migrator *)

\* An error of Migrate or Rollback: the message names the failing migration.
MigrateError(name) == <<"failed to run migration", name>>
RollbackError(name) == <<"failed to rollback migration", name>>

\* Nothing printed.
NoReport == [rows |-> <<>>, summary |-> <<>>]

\* A call record: the operation, the error it returned, the Up/Down calls it
\* made in order, what it printed, and the state it started from.
Call(op, err, calls, report) ==
    [op |-> op, err |-> err, calls |-> calls, report |-> report,
     History0 |-> History, NextBatch0 |-> NextBatch,
     applyOrder0 |-> applyOrder, partial0 |-> partial]

NoCall ==
    [op |-> "none", err |-> NoError, calls |-> <<>>, report |-> NoReport,
     History0 |-> EmptyHistory, NextBatch0 |-> 1,
     applyOrder0 |-> <<>>, partial0 |-> {}]

\* The whole list taken as pending, whatever has run.
PendingOfAll(migs, hist) == migs

\* The migrations of the list whose name is not in ranSet, in list order.
PendingOf(migs, hist) ==
    LET ranSet == Range(GetRanMigrations(hist))
    IN  SelectSeq(migs, LAMBDA m : m \notin ranSet)

\* The batch number recomputed from the ledger instead of read from the counter.
MigrateBatchFromHistory(hist, next) == GetLastBatch(hist) + 1

\* The batch number Migrate records under.
MigrateBatch(hist, next) == next

\* The loop recording a migration before looking at the error of its Up.
RECURSIVE MigrateLoopRecordFirst(_, _, _, _, _)
MigrateLoopRecordFirst(pending, batch, failing, hist, calls) ==
    IF pending = <<>> THEN [History |-> hist, calls |-> calls, err |-> NoError]
    ELSE LET mig == Head(pending)
             called == Append(calls, <<"Up", mig>>)
         IN  IF mig \in failing
             THEN [History |-> MapPut(hist, mig, batch), calls |-> called,
                   err |-> MigrateError(mig)]
             ELSE MigrateLoopRecordFirst(Tail(pending), batch, failing,
                                         MapPut(hist, mig, batch), called)

\* The loop over pending: Up, then record under batch; return at the first
\* Up that fails.  failing is the set of migrations whose Up returns an error.
RECURSIVE MigrateLoop(_, _, _, _, _)
MigrateLoop(pending, batch, failing, hist, calls) ==
    IF pending = <<>> THEN [History |-> hist, calls |-> calls, err |-> NoError]
    ELSE LET mig == Head(pending)
             called == Append(calls, <<"Up", mig>>)
         IN  IF mig \in failing
             THEN [History |-> hist, calls |-> called, err |-> MigrateError(mig)]
             ELSE MigrateLoop(Tail(pending), batch, failing,
                              MapPut(hist, mig, batch), called)

\* The counter never advanced.
MigrateNextBatchNever(next, err) == next

\* The counter advanced on the failure path too.
MigrateNextBatchAlways(next, err) == next + 1

\* The counter after Migrate: advanced only when every Up succeeded.
MigrateNextBatch(next, err) == IF err = NoError THEN next + 1 ELSE next

\* The names of a call's successful calls of the given kind.
Succeeded(calls, kind, err) ==
    LET mine  == SelectSeq(calls, LAMBDA c : c[1] = kind)
        ns    == [i \in 1..Len(mine) |-> mine[i][2]]
    IN  IF err = NoError THEN ns ELSE SubSeq(ns, 1, Len(ns) - 1)

\* What a call of Migrate prints last.
UpToDateMessage == <<"Database is up to date. Nothing to migrate.">>
MigrationCompleteMessage == <<"--- Migration Complete ---">>

\* Migrate on the list migs and the ledger (hist, next): the ledger it leaves,
\* the error it returns, the Up calls it makes and the last line it prints.
MigrateOutcome(migs, hist, next, failing) ==
    LET pending == PendingOf(migs, hist)
    IN  IF pending = <<>>
        THEN [History |-> hist, NextBatch |-> next, err |-> NoError,
              calls |-> <<>>, message |-> UpToDateMessage]
        ELSE LET batch == MigrateBatch(hist, next)
                 r == MigrateLoop(pending, batch, failing, hist, <<>>)
             IN  [History |-> r.History,
                  NextBatch |-> MigrateNextBatch(next, r.err),
                  err |-> r.err, calls |-> r.calls,
                  message |-> IF r.err = NoError
                              THEN MigrationCompleteMessage ELSE <<>>]

Init ==
    /\ \E input \in Registrations :
           migrations = SortByName(input)
    /\ History = EmptyHistory
    /\ NextBatch = 1
    /\ last = NoCall
    /\ prev = NoCall
    /\ applyOrder = <<>>
    /\ partial = {}

Migrate ==
    \E failing \in SUBSET Range(migrations) :
        LET o == MigrateOutcome(migrations, History, NextBatch, failing)
            ups == Succeeded(o.calls, "Up", o.err)
        IN  /\ History' = o.History
            /\ NextBatch' = o.NextBatch
            /\ last' = Call("migrate", o.err, o.calls,
                            [rows |-> <<>>, summary |-> o.message])
            /\ prev' = last
            /\ applyOrder' = applyOrder \o ups
            /\ partial' = IF o.err # NoError THEN partial \cup Range(ups)
                          ELSE IF o.calls = <<>> THEN partial ELSE {}
            /\ UNCHANGED migrations

\* The names recorded one batch above: none when batch is the highest.
MigrationsInBatchAbove(hist, batch) == {n \in DOMAIN hist : hist[n] = batch + 1}

\* Every recorded name taken, whatever its batch.
MigrationsInBatchAll(hist, batch) == DOMAIN hist

\* Step 1 of Rollback: the names recorded under the batch.
MigrationsInBatch(hist, batch) == {n \in DOMAIN hist : hist[n] = batch}

\* The list scanned forwards, keeping the batch's members.
MigrationsToRevertForward(migs, inBatch) ==
    SelectSeq(migs, LAMBDA m : m \in inBatch)

\* Step 2 of Rollback: the list scanned backwards, keeping the batch's members.
MigrationsToRevert(migs, inBatch) ==
    SelectSeq(Reverse(migs), LAMBDA m : m \in inBatch)

\* The loop calling Down without the delete from History.
RECURSIVE RollbackLoopNoDelete(_, _, _, _)
RollbackLoopNoDelete(toRevert, failing, hist, calls) ==
    IF toRevert = <<>> THEN [History |-> hist, calls |-> calls, err |-> NoError]
    ELSE LET mig == Head(toRevert)
             called == Append(calls, <<"Down", mig>>)
         IN  IF mig \in failing
             THEN [History |-> hist, calls |-> called, err |-> RollbackError(mig)]
             ELSE RollbackLoopNoDelete(Tail(toRevert), failing, hist, called)

\* The loop over migrationsToRevert: Down, then delete from History; return at
\* the first Down that fails.  failing is the set of migrations whose Down
\* returns an error.
RECURSIVE RollbackLoop(_, _, _, _)
RollbackLoop(toRevert, failing, hist, calls) ==
    IF toRevert = <<>> THEN [History |-> hist, calls |-> calls, err |-> NoError]
    ELSE LET mig == Head(toRevert)
             called == Append(calls, <<"Down", mig>>)
         IN  IF mig \in failing
             THEN [History |-> hist, calls |-> called, err |-> RollbackError(mig)]
             ELSE RollbackLoop(Tail(toRevert), failing, MapDelete(hist, mig), called)

\* The counter set one below the rolled back number.
RollbackNextBatchBelow(next, batchToRollback, err) ==
    IF err = NoError THEN batchToRollback - 1 ELSE next

\* The counter reset on the failure path too.
RollbackNextBatchAlways(next, batchToRollback, err) == batchToRollback

\* The counter left alone by Rollback.
RollbackNextBatchKept(next, batchToRollback, err) == next

\* The counter after Rollback: the rolled back number once every Down succeeded.
RollbackNextBatch(next, batchToRollback, err) ==
    IF err = NoError THEN batchToRollback ELSE next

\* What a call of Rollback prints last.
NothingToRollbackMessage == <<"No migrations have been run. Nothing to rollback.">>
NoRecordedMigrationsMessage(batch) ==
    <<"Batch has no recorded migrations. Nothing to rollback.", batch>>
RollbackCompleteMessage == <<"--- Rollback Complete ---">>

\* Rollback without its two early returns.
RollbackOutcomeUnguarded(migs, hist, next, failing) ==
    LET batchToRollback == GetLastBatch(hist)
        toRevert == MigrationsToRevert(migs, MigrationsInBatch(hist, batchToRollback))
        r == RollbackLoop(toRevert, failing, hist, <<>>)
    IN  [History |-> r.History,
         NextBatch |-> RollbackNextBatch(next, batchToRollback, r.err),
         err |-> r.err, calls |-> r.calls,
         message |-> IF r.err = NoError THEN RollbackCompleteMessage ELSE <<>>]

\* Rollback on the list migs and the ledger (hist, next): the ledger it leaves,
\* the error it returns, the Down calls it makes and the last line it prints.
RollbackOutcome(migs, hist, next, failing) ==
    LET batchToRollback == GetLastBatch(hist)
        toRevert == MigrationsToRevert(migs, MigrationsInBatch(hist, batchToRollback))
    IN  IF batchToRollback = 0
        THEN [History |-> hist, NextBatch |-> next, err |-> NoError,
              calls |-> <<>>, message |-> NothingToRollbackMessage]
        ELSE IF toRevert = <<>>
        THEN [History |-> hist, NextBatch |-> next, err |-> NoError,
              calls |-> <<>>, message |-> NoRecordedMigrationsMessage(batchToRollback)]
        ELSE LET r == RollbackLoop(toRevert, failing, hist, <<>>)
             IN  [History |-> r.History,
                  NextBatch |-> RollbackNextBatch(next, batchToRollback, r.err),
                  err |-> r.err, calls |-> r.calls,
                  message |-> IF r.err = NoError
                              THEN RollbackCompleteMessage ELSE <<>>]

Rollback ==
    \E failing \in SUBSET Range(migrations) :
        LET o == RollbackOutcome(migrations, History, NextBatch, failing)
            downs == Range(Succeeded(o.calls, "Down", o.err))
        IN  /\ History' = o.History
            /\ NextBatch' = o.NextBatch
            /\ last' = Call("rollback", o.err, o.calls,
                            [rows |-> <<>>, summary |-> o.message])
            /\ prev' = last
            /\ applyOrder' = SelectSeq(applyOrder, LAMBDA n : n \notin downs)
            /\ partial' = partial \ downs
            /\ UNCHANGED migrations

\* The table built from the ledger's names instead of the registered list.
StatusRowsRanOnly(migs, hist) ==
    LET ran == GetRanMigrations(hist)
    IN  [i \in 1..Len(ran) |-> <<ran[i], "Ran", hist[ran[i]]>>]

\* The table Status prints: one row for each migration of the list, in order.
StatusRows(migs, hist) ==
    [i \in 1..Len(migs) |->
        IF migs[i] \in DOMAIN hist
        THEN <<migs[i], "Ran", hist[migs[i]]>>
        ELSE <<migs[i], "Pending">>]

\* The line Status prints under the table.
StatusSummary(migs, hist) ==
    LET ranMigrations == GetRanMigrations(hist)
        pendingCount == Cardinality({i \in 1..Len(migs) : migs[i] \notin DOMAIN hist})
    IN  IF pendingCount = 0 /\ Len(ranMigrations) > 0
        THEN "Database is fully up to date."
        ELSE IF Len(ranMigrations) = 0
        THEN "No migrations have been run yet."
        ELSE ""

Status ==
    /\ last' = Call("status", NoError, <<>>,
                    [rows |-> StatusRows(migrations, History),
                     summary |-> <<StatusSummary(migrations, History)>>])
    /\ prev' = last
    /\ UNCHANGED <<migrations, History, NextBatch, applyOrder, partial>>

Next ==
    \/ Migrate
    \/ Rollback
    \/ Status

Spec == Init /\ [][Next]_vars

----------------------------------------------------------------------------
(* The scenario of a fresh Migrator driven with an executor that never fails:
   Migrate on the empty ledger, Rollback of what it applied, Status at any
   point in between. *)

ScenarioMigrate ==
    /\ migrations # <<>>
    /\ History = EmptyHistory
    /\ Migrate
    /\ last'.err = NoError

ScenarioRollback ==
    /\ History # EmptyHistory
    /\ Rollback
    /\ last'.err = NoError

ScenarioStatus == Status

NextScenario ==
    \/ ScenarioMigrate
    \/ ScenarioRollback
    \/ ScenarioStatus

SpecScenario == Init /\ [][NextScenario]_vars

----------------------------------------------------------------------------
(* The command line tool: every invocation is a process of its own.  main
   builds a Migrator, whose ledger is a new SimulatedDB, runs one command on
   it and exits.  History and NextBatch are then the ledger of the process
   that ran last, and applyOrder and partial are its own too. *)

\* What main prints for a command it does not know.
UnknownCommandMessage ==
    <<"Unknown command. Available commands: migrate, rollback, status">>

\* The record of a command run by a process of its own.
MainCall(op, err, calls, report) ==
    [op |-> op, err |-> err, calls |-> calls, report |-> report,
     History0 |-> EmptyHistory, NextBatch0 |-> 1,
     applyOrder0 |-> <<>>, partial0 |-> {}]

MainMigrate ==
    \E failing \in SUBSET Range(migrations) :
        LET o == MigrateOutcome(migrations, EmptyHistory, 1, failing)
            ups == Succeeded(o.calls, "Up", o.err)
        IN  /\ History' = o.History
            /\ NextBatch' = o.NextBatch
            /\ last' = MainCall("migrate", o.err, o.calls,
                                [rows |-> <<>>, summary |-> o.message])
            /\ prev' = last
            /\ applyOrder' = ups
            /\ partial' = IF o.err # NoError THEN Range(ups) ELSE {}
            /\ UNCHANGED migrations

MainRollback ==
    \E failing \in SUBSET Range(migrations) :
        LET o == RollbackOutcome(migrations, EmptyHistory, 1, failing)
        IN  /\ History' = o.History
            /\ NextBatch' = o.NextBatch
            /\ last' = MainCall("rollback", o.err, o.calls,
                                [rows |-> <<>>, summary |-> o.message])
            /\ prev' = last
            /\ applyOrder' = <<>>
            /\ partial' = {}
            /\ UNCHANGED migrations

MainStatus ==
    /\ History' = EmptyHistory
    /\ NextBatch' = 1
    /\ last' = MainCall("status", NoError, <<>>,
                        [rows |-> StatusRows(migrations, EmptyHistory),
                         summary |-> <<StatusSummary(migrations, EmptyHistory)>>])
    /\ prev' = last
    /\ applyOrder' = <<>>
    /\ partial' = {}
    /\ UNCHANGED migrations

MainUnknown ==
    /\ History' = EmptyHistory
    /\ NextBatch' = 1
    /\ last' = MainCall("unknown", NoError, <<>>,
                        [rows |-> <<>>, summary |-> UnknownCommandMessage])
    /\ prev' = last
    /\ applyOrder' = <<>>
    /\ partial' = {}
    /\ UNCHANGED migrations

NextCLI ==
    \/ MainMigrate
    \/ MainRollback
    \/ MainStatus
    \/ MainUnknown

SpecCLI == Init /\ [][NextCLI]_vars

----------------------------------------------------------------------------
(* Vocabulary of the properties *)

\* The names a call passed to Up or Down, in call order.
CalledNames(c) == [i \in 1..Len(c.calls) |-> c.calls[i][2]]

\* Every call the record holds is of the given kind.
OnlyCalls(c, kind) == \A i \in 1..Len(c.calls) : c.calls[i][1] = kind

\* The migration whose Up or Down returned the error: the last one called.
FailingName(c) == c.calls[Len(c.calls)][2]

\* The sequence is in strictly ascending name order.
Ascending(s) == \A i, j \in 1..Len(s) : i < j => NameLess(s[i], s[j])

\* The sequence is in strictly descending name order.
Descending(s) == \A i, j \in 1..Len(s) : i < j => NameLess(s[j], s[i])

\* s is the beginning of t.
IsPrefix(s, t) == Len(s) <= Len(t) /\ s = SubSeq(t, 1, Len(s))

\* The registered names absent from the ledger a call started with.
PendingBefore(c) == Range(migrations) \ DOMAIN c.History0

\* The highest batch of the ledger a call started with, and its members.
TargetOf(c) == GetLastBatch(c.History0)
TargetMembers(c) == {n \in DOMAIN c.History0 : c.History0[n] = TargetOf(c)}

\* The names a call added to the ledger, and the names it removed.
Recorded(c, hist) == (DOMAIN hist) \ (DOMAIN c.History0)
Erased(c, hist) == (DOMAIN c.History0) \ (DOMAIN hist)

\* The entries the ledger held when the call started are all still there.
OldEntriesKept(c, hist) ==
    \A n \in DOMAIN c.History0 : n \in DOMAIN hist /\ hist[n] = c.History0[n]

----------------------------------------------------------------------------
(* C1: Migrate calls Up on the pending migrations in ascending name order,
   whatever order they were registered in, and Rollback calls Down on the
   members of the rolled back batch in the inverse of the order in which
   their Up calls succeeded, which is descending name order. *)
ApplyThenRevertOrder ==
    /\ last.op = "migrate" =>
          /\ OnlyCalls(last, "Up")
          /\ Ascending(CalledNames(last))
          /\ Range(CalledNames(last)) \subseteq PendingBefore(last)
          /\ \A c \in Range(CalledNames(last)) : \A p \in PendingBefore(last) :
                 NameLess(p, c) => p \in Range(CalledNames(last))
    /\ last.op = "rollback" =>
          /\ OnlyCalls(last, "Down")
          /\ Descending(CalledNames(last))
          /\ IsPrefix(CalledNames(last),
                      Reverse(SelectSeq(last.applyOrder0,
                                        LAMBDA n : n \in TargetMembers(last))))

\* A rollback of three migrations right after the migrate that applied them.
ApplyThenRevertOrderWitness ==
    /\ prev.op = "migrate" /\ Len(prev.calls) = 3 /\ prev.err = NoError
    /\ last.op = "rollback" /\ Len(last.calls) = 3 /\ last.err = NoError
    /\ CalledNames(last) = Reverse(CalledNames(prev))
    /\ <<1, 0>> \in Range(migrations) /\ <<2>> \in Range(migrations)

(* C2: when an Up fails, Migrate stops there: the pending migrations before
   the failing one are recorded under the batch number the counter had at the
   start, the failing one and the later ones are not recorded and Up is not
   called on the later ones, the counter is unchanged, no Down is called, and
   the error names the failing migration. *)
MigrateStopsAtFailure ==
    (last.op = "migrate" /\ last.err # NoError) =>
        LET f == FailingName(last)
        IN  /\ last.err = MigrateError(f)
            /\ f \in PendingBefore(last)
            /\ OnlyCalls(last, "Up")
            /\ \A p \in PendingBefore(last) :
                   /\ NameLess(p, f) =>
                          /\ p \in DOMAIN History
                          /\ History[p] = last.NextBatch0
                          /\ p \in Range(CalledNames(last))
                   /\ ~NameLess(p, f) => p \notin DOMAIN History
                   /\ NameLess(f, p) => p \notin Range(CalledNames(last))
            /\ OldEntriesKept(last, History)
            /\ NextBatch = last.NextBatch0

\* The second of three pending migrations failed.
MigrateStopsAtFailureWitness ==
    /\ last.op = "migrate" /\ last.err # NoError
    /\ Len(last.calls) = 2
    /\ Cardinality(PendingBefore(last)) = 3
    /\ Cardinality(DOMAIN History) = 1

(* C3: a Migrate in which every Up succeeds, right after a Migrate that failed
   with the counter at N, calls Up only on the migrations the failed call did
   not record, records them under N, and advances the counter to N + 1. *)
RetryAfterFailure ==
    (/\ prev.op = "migrate" /\ prev.err # NoError
     /\ last.op = "migrate" /\ last.err = NoError) =>
        /\ Range(CalledNames(last)) = Range(migrations) \ DOMAIN last.History0
        /\ Range(CalledNames(last)) \cap Recorded(prev, last.History0) = {}
        /\ Len(last.calls) = Cardinality(Range(CalledNames(last)))
        /\ \A n \in Range(CalledNames(last)) :
               n \in DOMAIN History /\ History[n] = prev.NextBatch0
        /\ OldEntriesKept(last, History)
        /\ NextBatch = prev.NextBatch0 + 1

\* The failed call recorded one migration and the retry applied the other two.
RetryAfterFailureWitness ==
    /\ prev.op = "migrate" /\ prev.err # NoError
    /\ Cardinality(Recorded(prev, last.History0)) = 1
    /\ last.op = "migrate" /\ last.err = NoError
    /\ Len(last.calls) = 2

(* C4, as stated: after a Migrate followed by a Rollback, the ledger and the
   counter are what they were before the Migrate, from any reachable state. *)
RoundTripFromAnyState ==
    (prev.op = "migrate" /\ last.op = "rollback") =>
        /\ History = prev.History0
        /\ NextBatch = prev.NextBatch0

(* C4, amended: after a Migrate that recorded at least one migration, started
   in a state where no entry carried the counter's number, followed by a
   Rollback in which every Down succeeds, the ledger and the counter are what
   they were before the Migrate. *)
RoundTrip ==
    (/\ prev.op = "migrate" /\ Recorded(prev, last.History0) # {}
     /\ \A n \in DOMAIN prev.History0 : prev.History0[n] # prev.NextBatch0
     /\ last.op = "rollback" /\ last.err = NoError) =>
        /\ History = prev.History0
        /\ NextBatch = prev.NextBatch0

\* A second batch is applied on top of a first one and rolled back again.
RoundTripWitness ==
    /\ prev.op = "migrate" /\ prev.err = NoError /\ prev.calls # <<>>
    /\ prev.History0 # EmptyHistory /\ prev.NextBatch0 = 2
    /\ last.op = "rollback" /\ last.err = NoError
    /\ History = prev.History0 /\ NextBatch = 2

(* C5, as stated: the counter is strictly greater than every batch number in
   the ledger, in every reachable state. *)
NextBatchAboveLedger == NextBatch > GetLastBatch(History)

(* C5, amended: the counter is never smaller than a batch number in the
   ledger, and it is strictly greater whenever the last Migrate or Rollback
   returned without error. *)
NextBatchNotBelowLedger ==
    /\ NextBatch >= GetLastBatch(History)
    /\ (last.op \in {"migrate", "rollback"} /\ last.err = NoError) =>
           NextBatch > GetLastBatch(History)

\* A Migrate failed after recording under the counter's number, which stayed.
NextBatchNotBelowLedgerWitness ==
    /\ last.op = "migrate" /\ last.err # NoError
    /\ History # EmptyHistory
    /\ NextBatch = GetLastBatch(History)

RollbackAllOrNothing ==
    last.op = "rollback" =>
        \/ TargetMembers(last) \cap DOMAIN History = {}
        \/ TargetMembers(last) \subseteq DOMAIN History

(* C7, amended: when Rollback returns without error every entry of the highest
   batch has been erased; when it returns an error, the entries erased are
   exactly those of the migrations whose Down returned without error, and the
   entry of the failing migration is still there. *)
RollbackErasesReverted ==
    last.op = "rollback" =>
        /\ last.err = NoError => Erased(last, History) = TargetMembers(last)
        /\ last.err # NoError =>
               /\ Erased(last, History) = Range(CalledNames(last)) \ {FailingName(last)}
               /\ FailingName(last) \in TargetMembers(last) \cap DOMAIN History

\* A Rollback failed after erasing part of the batch.
RollbackErasesRevertedWitness ==
    /\ last.op = "rollback" /\ last.err # NoError
    /\ Erased(last, History) # {}
    /\ TargetMembers(last) \cap DOMAIN History # {}

(* C8: when a Down fails, Rollback stops there: Down is not called on the
   migrations later in the revert order, the failing migration and the ones
   not yet reverted keep their entry and batch number, the counter is
   unchanged, and the error names the failing migration. *)
RollbackStopsAtFailure ==
    (last.op = "rollback" /\ last.err # NoError) =>
        LET f == FailingName(last)
        IN  /\ last.err = RollbackError(f)
            /\ f \in TargetMembers(last)
            /\ OnlyCalls(last, "Down")
            /\ \A m \in TargetMembers(last) :
                   /\ NameLess(m, f) => m \notin Range(CalledNames(last))
                   /\ (m = f \/ NameLess(m, f)) =>
                          /\ m \in DOMAIN History
                          /\ History[m] = TargetOf(last)
                   /\ NameLess(f, m) => m \in Range(CalledNames(last))
            /\ \A n \in DOMAIN History : History[n] = last.History0[n]
            /\ NextBatch = last.NextBatch0

\* The second of three reverts failed, with the counter above the batch.
RollbackStopsAtFailureWitness ==
    /\ last.op = "rollback" /\ last.err # NoError
    /\ Len(last.calls) = 2
    /\ Cardinality(TargetMembers(last)) = 3
    /\ NextBatch # TargetOf(last)

(* C9: a Rollback that succeeds on a ledger whose highest batch is target > 0
   calls Down on exactly the migrations recorded under target, once each, and
   on none of a lower batch; exactly those names are erased, the entries of
   lower batches are unchanged, and the counter equals target afterwards. *)
RollbackRevertsExactlyTarget ==
    (last.op = "rollback" /\ last.err = NoError /\ TargetOf(last) > 0) =>
        /\ OnlyCalls(last, "Down")
        /\ Range(CalledNames(last)) = TargetMembers(last)
        /\ Len(last.calls) = Cardinality(TargetMembers(last))
        /\ DOMAIN History = (DOMAIN last.History0) \ TargetMembers(last)
        /\ \A n \in DOMAIN History : History[n] = last.History0[n]
        /\ NextBatch = TargetOf(last)

\* The second batch is rolled back and the first one stays.
RollbackRevertsExactlyTargetWitness ==
    /\ last.op = "rollback" /\ last.err = NoError
    /\ TargetOf(last) = 2
    /\ last.calls # <<>>
    /\ History # EmptyHistory

(* C10: a Migrate that finds a pending migration and in which every Up
   succeeds leaves every registered migration in the ledger, the newly applied
   ones under the number the counter had at the start (not the highest batch
   plus one), the earlier entries unchanged, and the counter one higher. *)
MigrateRecordsUnderCounter ==
    (last.op = "migrate" /\ last.err = NoError /\ PendingBefore(last) # {}) =>
        /\ DOMAIN History = Range(migrations) \cup DOMAIN last.History0
        /\ Range(migrations) \subseteq DOMAIN History
        /\ Range(CalledNames(last)) = PendingBefore(last)
        /\ \A n \in PendingBefore(last) : History[n] = last.NextBatch0
        /\ OldEntriesKept(last, History)
        /\ NextBatch = last.NextBatch0 + 1

\* The counter at the start was not the highest batch plus one.
MigrateRecordsUnderCounterWitness ==
    /\ last.op = "migrate" /\ last.err = NoError /\ PendingBefore(last) # {}
    /\ last.NextBatch0 # GetLastBatch(last.History0) + 1
    /\ last.History0 # EmptyHistory

(* C11: when no registered migration is pending, Migrate calls no Up, leaves
   the ledger and the counter unchanged and returns without error; so a
   Migrate right after a Migrate that succeeded makes no call and succeeds. *)
MigrateIdempotent ==
    /\ (last.op = "migrate" /\ PendingBefore(last) = {}) =>
           /\ last.calls = <<>>
           /\ last.err = NoError
           /\ History = last.History0
           /\ NextBatch = last.NextBatch0
    /\ (prev.op = "migrate" /\ prev.err = NoError /\ last.op = "migrate") =>
           /\ last.calls = <<>>
           /\ last.err = NoError
           /\ History = last.History0
           /\ NextBatch = last.NextBatch0

\* A Migrate that applied three migrations is followed by one that finds none.
MigrateIdempotentWitness ==
    /\ prev.op = "migrate" /\ prev.err = NoError /\ Len(prev.calls) = 3
    /\ last.op = "migrate" /\ last.calls = <<>> /\ last.err = NoError
    /\ Cardinality(DOMAIN History) = 3

(* C12: after every call, whatever Ups and Downs failed, the names in the
   ledger are exactly the migrations whose Up has returned without error and
   whose Down has not returned without error since. *)
LedgerIsAppliedSet == DOMAIN History = Range(applyOrder)

\* A Migrate and a Rollback have both failed part-way and an entry is left.
LedgerIsAppliedSetWitness ==
    /\ prev.op = "migrate" /\ prev.err # NoError
    /\ last.op = "rollback" /\ last.err # NoError /\ Len(last.calls) >= 2
    /\ History # EmptyHistory

(* C13: Status changes neither the ledger nor the counter and calls no Up or
   Down; it prints one row for each registered migration, in ascending name
   order, tagged as run with batch K exactly when the ledger maps the name to
   K and as pending exactly when the ledger does not hold the name. *)
StatusIsPureAndComplete ==
    last.op = "status" =>
        LET rows == last.report.rows
        IN  /\ History = last.History0
            /\ NextBatch = last.NextBatch0
            /\ last.calls = <<>>
            /\ last.err = NoError
            /\ Len(rows) = Len(migrations)
            /\ Ascending([i \in 1..Len(rows) |-> rows[i][1]])
            /\ {rows[i][1] : i \in 1..Len(rows)} = Range(migrations)
            /\ \A i \in 1..Len(rows) :
                   /\ rows[i][1] \in DOMAIN History =>
                          rows[i] = <<rows[i][1], "Ran", History[rows[i][1]]>>
                   /\ rows[i][1] \notin DOMAIN History =>
                          rows[i] = <<rows[i][1], "Pending">>

\* Status prints a run migration of batch 1, one of batch 2 and a pending one.
StatusIsPureAndCompleteWitness ==
    /\ last.op = "status"
    /\ Len(last.report.rows) = 3
    /\ \E i, j, k \in 1..3 :
           /\ Len(last.report.rows[i]) = 3 /\ last.report.rows[i][3] = 1
           /\ Len(last.report.rows[j]) = 3 /\ last.report.rows[j][3] = 2
           /\ last.report.rows[k][2] = "Pending"

(* C14: on an empty ledger Rollback calls no Down, leaves the ledger and the
   counter unchanged and returns without error. *)
RollbackOnEmptyLedger ==
    (last.op = "rollback" /\ last.History0 = EmptyHistory) =>
        /\ last.calls = <<>>
        /\ last.err = NoError
        /\ History = EmptyHistory
        /\ NextBatch = last.NextBatch0

\* Rollback is called on the ledger a full Rollback has just emptied.
RollbackOnEmptyLedgerWitness ==
    /\ prev.op = "rollback" /\ prev.calls # <<>> /\ prev.err = NoError
    /\ last.op = "rollback" /\ last.History0 = EmptyHistory
    /\ last.report.summary = NothingToRollbackMessage

(* C15: on a fresh Migrator with a non-empty list and an executor that never
   fails, Migrate records every migration under batch 1 and Status then shows
   every one as run (1); the Rollback that follows calls Down on all of them
   in descending name order and leaves the ledger empty with the counter back
   at 1, and Status then shows every one as pending. *)
EndToEndScenario ==
    /\ last.op = "migrate" =>
           /\ last.History0 = EmptyHistory /\ last.NextBatch0 = 1
           /\ CalledNames(last) = migrations
           /\ DOMAIN History = Range(migrations)
           /\ \A n \in Range(migrations) : History[n] = 1
    /\ (last.op = "status" /\ prev.op = "migrate") =>
           last.report.rows = [i \in 1..Len(migrations) |-> <<migrations[i], "Ran", 1>>]
    /\ last.op = "rollback" =>
           /\ OnlyCalls(last, "Down")
           /\ CalledNames(last) = Reverse(migrations)
           /\ Descending(CalledNames(last))
           /\ History = EmptyHistory
           /\ NextBatch = 1
    /\ (last.op = "status" /\ prev.op = "rollback") =>
           last.report.rows = [i \in 1..Len(migrations) |-> <<migrations[i], "Pending">>]

\* The last Status of the scenario, with three migrations reverted before it.
EndToEndScenarioWitness ==
    /\ last.op = "status" /\ prev.op = "rollback"
    /\ Len(prev.calls) = 3 /\ Cardinality(DOMAIN prev.History0) = 3
    /\ Len(last.report.rows) = 3
    /\ History = EmptyHistory /\ NextBatch = 1

(* C16: across invocations of the command line tool, a rollback invocation
   that follows a migrate invocation calls Down on the migrations the migrate
   invocation recorded, and a status invocation that follows a migrate
   invocation reports them as run. *)
CLIRollbackRevertsLastBatch ==
    /\ (prev.op = "migrate" /\ last.op = "rollback") =>
           /\ OnlyCalls(last, "Down")
           /\ Range(CalledNames(last)) = Range(Succeeded(prev.calls, "Up", prev.err))
    /\ (prev.op = "migrate" /\ last.op = "status") =>
           \A n \in Range(Succeeded(prev.calls, "Up", prev.err)) :
               \E i \in 1..Len(last.report.rows) :
                   last.report.rows[i][1] = n /\ last.report.rows[i][2] = "Ran"

(* C17: in every reachable state the counter is at least 1 and is either the
   highest batch of the ledger or one above it; it is 1 whenever the ledger
   is empty. *)
NextBatchTracksHighest ==
    /\ NextBatch >= 1
    /\ NextBatch \in {GetLastBatch(History), GetLastBatch(History) + 1}
    /\ History = EmptyHistory => NextBatch = 1

\* The counter equals the highest batch, which is 2, after a failed Migrate.
NextBatchTracksHighestWitness ==
    /\ last.op = "migrate" /\ last.err # NoError
    /\ GetLastBatch(History) = 2
    /\ NextBatch = 2

(* C18: in every reachable state the batch numbers in the ledger are positive
   and without gaps: they are exactly 1 .. the highest batch. *)
BatchesGapFree ==
    /\ \A n \in DOMAIN History : History[n] >= 1
    /\ {History[n] : n \in DOMAIN History} = 1..GetLastBatch(History)

\* Three batches are in the ledger.
BatchesGapFreeWitness ==
    /\ GetLastBatch(History) = 3
    /\ Cardinality(DOMAIN History) = 3

(* C19: in every reachable state the applied names are a prefix of the sorted
   list, and batch numbers do not decrease along ascending name order, so the
   members of one batch are contiguous in the list. *)
AppliedIsPrefix ==
    /\ \A i, j \in 1..Len(migrations) :
           (i < j /\ migrations[j] \in DOMAIN History) =>
               /\ migrations[i] \in DOMAIN History
               /\ History[migrations[i]] <= History[migrations[j]]
    /\ \A i, j, k \in 1..Len(migrations) :
           (/\ i < j /\ j < k
            /\ migrations[i] \in DOMAIN History
            /\ migrations[k] \in DOMAIN History
            /\ History[migrations[i]] = History[migrations[k]]) =>
               /\ migrations[j] \in DOMAIN History
               /\ History[migrations[j]] = History[migrations[i]]

\* A Rollback failed part-way and left two applied names before a pending one.
AppliedIsPrefixWitness ==
    /\ last.op = "rollback" /\ last.err # NoError
    /\ Len(migrations) = 3
    /\ Cardinality(DOMAIN History) = 2
    /\ migrations[3] \notin DOMAIN History

(* C20: every name in the ledger is the name of a registered migration, so a
   ledger with a highest batch has a registered member of that batch, and the
   branch of Rollback for a highest batch without registered members is never
   taken. *)
LedgerNamesAreRegistered ==
    /\ DOMAIN History \subseteq Range(migrations)
    /\ GetLastBatch(History) > 0 =>
           \E n \in Range(migrations) :
               n \in DOMAIN History /\ History[n] = GetLastBatch(History)
    /\ (last.op = "rollback" /\ TargetOf(last) > 0) =>
           /\ last.report.summary # NoRecordedMigrationsMessage(TargetOf(last))
           /\ last.calls # <<>>

\* A Rollback on a ledger of two batches went through its loop.
LedgerNamesAreRegisteredWitness ==
    /\ last.op = "rollback" /\ TargetOf(last) = 2
    /\ last.calls # <<>>
    /\ last.report.summary = RollbackCompleteMessage

\* Rollback called again and again on the ledger (hist, next) with no Down
\* failing, until the ledger is empty: the number of calls made and the counter
\* at the end.  calls is -1 when the ledger is not empty after fuel calls.
RECURSIVE RollbackUntilEmpty(_, _, _, _)
RollbackUntilEmpty(migs, hist, next, fuel) ==
    IF hist = EmptyHistory THEN [calls |-> 0, NextBatch |-> next]
    ELSE IF fuel = 0 THEN [calls |-> -1, NextBatch |-> next]
    ELSE LET o == RollbackOutcome(migs, hist, next, {})
             r == RollbackUntilEmpty(migs, o.History, o.NextBatch, fuel - 1)
         IN  [calls |-> IF r.calls = -1 THEN -1 ELSE r.calls + 1,
              NextBatch |-> r.NextBatch]

(* C21: a Rollback that succeeds on a non-empty ledger strictly lowers the
   highest batch; so from every reachable state, Rollback called repeatedly
   with no Down failing empties the ledger and leaves the counter at 1 after
   exactly as many calls as the ledger holds distinct batch numbers; and a
   Migrate in which no Up fails leaves no registered migration pending. *)
RollbackAndMigrateProgress ==
    /\ (last.op = "rollback" /\ last.err = NoError
            /\ last.History0 # EmptyHistory) =>
           GetLastBatch(History) < GetLastBatch(last.History0)
    /\ LET drained == RollbackUntilEmpty(migrations, History, NextBatch,
                                         Cardinality(DOMAIN History) + 1)
       IN  /\ drained.calls = Cardinality({History[n] : n \in DOMAIN History})
           /\ drained.NextBatch = 1
    /\ (last.op = "migrate" /\ last.err = NoError) =>
           PendingOf(migrations, History) = <<>>

\* A Rollback has taken a ledger of three batches down to two, and two more
\* calls empty it.
RollbackAndMigrateProgressWitness ==
    /\ last.op = "rollback" /\ last.err = NoError
    /\ GetLastBatch(last.History0) = 3
    /\ GetLastBatch(History) = 2
    /\ RollbackUntilEmpty(migrations, History, NextBatch, 3).calls = 2

====
